---- MODULE Spec2Model ----
(***************************************************************************)
(* Model of src/search_query.py: the Query Executor                        *)
(* (search_semantic_scholar, lines 138-213) and the API search sweep       *)
(* (module level, lines 309-371).                                          *)
(*                                                                         *)
(* Durations are Python floats.  A float is modelled as a binary floating  *)
(* point number with a mantissa of Precision bits (CPython: 53), held as   *)
(* an integer number of units of 2^-Precision seconds; every arithmetic    *)
(* operation rounds to nearest, ties to even, as IEEE-754 does.            *)
(***************************************************************************)
EXTENDS Integers, Sequences, FiniteSets, TLC

\* ------------------------------------------------------------------ bounds
Precision == 5
YearSpan == 1
MaxPairs == 4

\* ------------------------------------------------------- program constants
MinYear == 1900
DefaultMaxRetries == 3
RateLimitBase == 3
ErrorBase == 2

\* ---------------------------------------------------------------- inputs
None == "None"
NoValue == -1
Missing == -1
NoData == <<-2>>
ZeroCit == <<0, 1>>
NoRet == <<>>

Whitespace == {" ", "\t"}
EmptyText == << <<>> >>
TopicTexts ==
  { EmptyText,
    << <<" ">> >>,
    << <<"a", "i">> >>,
    << <<" ", "m", "l">>, <<>>, <<"a", "i", " ">> >> }
YearInputs == MinYear..(MinYear + YearSpan)
DelayRanges == { <<1, 1>>, <<2, 5>> }
Totals == {0, 150}
CitationResponses == { NoData, <<>>, <<3, Missing>> }
MaxRetriesInputs == 0..DefaultMaxRetries

\* ------------------------------------------------------- float arithmetic
RECURSIVE Pow(_, _)
Pow(b, n) == IF n = 0 THEN 1 ELSE b * Pow(b, n - 1)

Unit == Pow(2, Precision)

RECURSIVE Quantum(_, _)
Quantum(x, q) == IF x < q * Unit THEN q ELSE Quantum(x, 2 * q)

Round(x) ==
  LET q == Quantum(x, 1)
      m == x \div q
      r == x - m * q
  IN  IF 2 * r < q THEN m * q
      ELSE IF 2 * r > q THEN (m + 1) * q
      ELSE IF m % 2 = 0 THEN m * q ELSE (m + 1) * q

Float(n) == Round(n * Unit)
FAdd(x, y) == Round(x + y)
FMul(x, y) == Round((x * y) \div Unit)

RandomDraws == 0..(Unit - 1)

UniformWithoutOffset(a, b, k) == FMul(Float(b - a), k)

Uniform(a, b, k) == FAdd(Float(a), FMul(Float(b - a), k))

RateLimitWaitErrorBase(n, k) == FAdd(Float(Pow(ErrorBase, n)), FAdd(Float(0), FMul(Float(1), k)))

RateLimitWait(n, k) == FAdd(Float(Pow(RateLimitBase, n)), Uniform(0, 1, k))

ErrorWait(n, k) == FAdd(Float(Pow(ErrorBase, n)), Uniform(0, 1, k))

\* ------------------------------------------------------------ pure helpers
RECURSIVE LStrip(_)
LStrip(s) == IF s # <<>> /\ Head(s) \in Whitespace THEN LStrip(Tail(s)) ELSE s

RECURSIVE RStrip(_)
RStrip(s) ==
  IF s # <<>> /\ s[Len(s)] \in Whitespace THEN RStrip(SubSeq(s, 1, Len(s) - 1)) ELSE s

Strip(s) == RStrip(LStrip(s))

RECURSIVE TopicList(_)
TopicList(lines) ==
  IF lines = <<>> THEN <<>>
  ELSE IF Strip(Head(lines)) # <<>>
       THEN <<Strip(Head(lines))>> \o TopicList(Tail(lines))
       ELSE TopicList(Tail(lines))

YearsOfExclusive(s, e) == [i \in 1..(e - s) |-> s + i - 1]

YearsOf(s, e) == [i \in 1..(e - s + 1) |-> s + i - 1]

ValidRangeOffByOne(s, e) == ~(s > e + 1)

ValidRange(s, e) == ~(s > e)

RECURSIVE GCD(_, _)
GCD(a, b) == IF b = 0 THEN a ELSE GCD(b, a % b)

RECURSIVE SumCitations(_)
SumCitations(papers) ==
  IF papers = <<>> THEN 0
  ELSE (IF Head(papers) = Missing THEN 0 ELSE Head(papers)) + SumCitations(Tail(papers))

Mean(papers) ==
  LET s == SumCitations(papers)
      g == GCD(s, Len(papers))
  IN  <<s \div g, Len(papers) \div g>>

CitationAverage(data) ==
  IF data = NoData THEN ZeroCit
  ELSE IF data = <<>> THEN ZeroCit
  ELSE Mean(data)

LoopContinuesStrict(rc, mr) == rc < mr

LoopContinues(rc, mr) == rc <= mr

RetriesExhaustedLate(rc, mr) == rc > mr + 1

RetriesExhausted(rc, mr) == rc > mr

CitationFailureDropsCount(t) == <<0, <<0, 1>>, "Got publication count but couldn't retrieve citation data">>

CitationFailureResult(t) == <<t, ZeroCit, "Got publication count but couldn't retrieve citation data">>

Truthy(msg) == msg # None /\ msg # ""

ErrorsAfterAlways(errs, topic, yr, msg) == Append(errs, <<topic, yr, msg>>)

ErrorsAfter(errs, topic, yr, msg) ==
  IF Truthy(msg) THEN Append(errs, <<topic, yr, msg>>) ELSE errs

ResultRecordOnlyPositive(topic, yr, pub, cit, ic) ==
  IF ic /\ pub > 0
  THEN [Topic |-> topic, Year |-> yr, Publications |-> pub, AverageCitations |-> cit]
  ELSE [Topic |-> topic, Year |-> yr, Publications |-> pub]

ResultRecord(topic, yr, pub, cit, ic) ==
  IF ic
  THEN [Topic |-> topic, Year |-> yr, Publications |-> pub, AverageCitations |-> cit]
  ELSE [Topic |-> topic, Year |-> yr, Publications |-> pub]

\* ------------------------------------------------------------------ state
VARIABLES
  pc,
  topic_list, start_year, end_year, years, include_citations, min_delay, max_delay,
  ti, yi, results, errors, delay, delays_taken, calls,
  max_retries, retry_count, total, ret,
  wait_time, backoff_cause, backoff_sleeps,
  count_requests, rate_limited, citation_requests, citation_outcome

formVars == <<topic_list, start_year, end_year, years, include_citations, min_delay, max_delay>>
sweepVars == <<ti, yi, results, errors, delay, delays_taken, calls>>
callVars == <<max_retries, retry_count, total, ret, wait_time, backoff_cause,
              backoff_sleeps, count_requests, rate_limited, citation_requests,
              citation_outcome>>
vars == <<pc, formVars, sweepVars, callVars>>

Init ==
  /\ pc = "idle"
  /\ topic_list = <<>>
  /\ start_year = NoValue
  /\ end_year = NoValue
  /\ years = <<>>
  /\ include_citations = FALSE
  /\ min_delay = NoValue
  /\ max_delay = NoValue
  /\ ti = 0
  /\ yi = 0
  /\ results = <<>>
  /\ errors = <<>>
  /\ delay = NoValue
  /\ delays_taken = 0
  /\ calls = 0
  /\ max_retries = NoValue
  /\ retry_count = NoValue
  /\ total = NoValue
  /\ ret = NoRet
  /\ wait_time = NoValue
  /\ backoff_cause = None
  /\ backoff_sleeps = 0
  /\ count_requests = 0
  /\ rate_limited = 0
  /\ citation_requests = 0
  /\ citation_outcome = None

\* ------------------------------------------------- search_semantic_scholar
Return(r) ==
  /\ ret' = r
  /\ pc' = "returned"

LoopTest ==
  /\ pc = "loop"
  /\ IF LoopContinues(retry_count, max_retries)
     THEN pc' = "request" /\ ret' = ret
     ELSE Return(<<0, ZeroCit, "Max retries exceeded">>)
  /\ UNCHANGED <<formVars, sweepVars, max_retries, retry_count, total, wait_time,
                 backoff_cause, backoff_sleeps, count_requests, rate_limited,
                 citation_requests, citation_outcome>>

CountRateLimited ==
  /\ pc = "request"
  /\ count_requests' = count_requests + 1
  /\ rate_limited' = rate_limited + 1
  /\ retry_count' = retry_count + 1
  /\ IF RetriesExhausted(retry_count', max_retries)
     THEN /\ Return(<<0, ZeroCit, "Rate limit exceeded">>)
          /\ UNCHANGED <<wait_time, backoff_cause>>
     ELSE /\ \E k \in RandomDraws : wait_time' = RateLimitWait(retry_count', k)
          /\ backoff_cause' = "rate_limit"
          /\ pc' = "backoff"
          /\ ret' = ret
  /\ UNCHANGED <<formVars, sweepVars, max_retries, total, backoff_sleeps, citation_requests,
                 citation_outcome>>

CountException ==
  /\ pc = "request"
  /\ \E has429 \in BOOLEAN :
       /\ count_requests' = count_requests + 1
       /\ retry_count' = retry_count + 1
       /\ IF RetriesExhausted(retry_count', max_retries) \/ ~has429
          THEN /\ Return(<<0, ZeroCit, "API Error">>)
               /\ UNCHANGED <<wait_time, backoff_cause>>
          ELSE /\ \E k \in RandomDraws : wait_time' = ErrorWait(retry_count', k)
               /\ backoff_cause' = "exception"
               /\ pc' = "backoff"
               /\ ret' = ret
  /\ UNCHANGED <<formVars, sweepVars, max_retries, total, backoff_sleeps, rate_limited,
                 citation_requests, citation_outcome>>

BackoffSleep ==
  /\ pc = "backoff"
  /\ backoff_sleeps' = backoff_sleeps + 1
  /\ wait_time' = NoValue
  /\ backoff_cause' = None
  /\ pc' = "loop"
  /\ UNCHANGED <<formVars, sweepVars, max_retries, retry_count, total, ret,
                 count_requests, rate_limited, citation_requests, citation_outcome>>

CountSuccess ==
  /\ pc = "request"
  /\ \E t \in Totals :
       /\ count_requests' = count_requests + 1
       /\ total' = t
       /\ IF include_citations /\ t > 0
          THEN pc' = "citation" /\ ret' = ret
          ELSE Return(<<t, ZeroCit, None>>)
  /\ UNCHANGED <<formVars, sweepVars, max_retries, retry_count, wait_time, backoff_cause,
                 backoff_sleeps, rate_limited, citation_requests, citation_outcome>>

CitationSuccess ==
  /\ pc = "citation"
  /\ citation_requests' = citation_requests + 1
  /\ citation_outcome' = "ok"
  /\ \E data \in CitationResponses : Return(<<total, CitationAverage(data), None>>)
  /\ UNCHANGED <<formVars, sweepVars, max_retries, retry_count, total, wait_time,
                 backoff_cause, backoff_sleeps, count_requests, rate_limited>>

CitationFailure ==
  /\ pc = "citation"
  /\ citation_requests' = citation_requests + 1
  /\ citation_outcome' = "failed"
  /\ Return(CitationFailureResult(total))
  /\ UNCHANGED <<formVars, sweepVars, max_retries, retry_count, total, wait_time,
                 backoff_cause, backoff_sleeps, count_requests, rate_limited>>

\* ---------------------------------------------------------- the API sweep
Submit ==
  /\ pc = "idle"
  /\ \E topics \in TopicTexts, sy \in YearInputs, ey \in YearInputs,
        ic \in BOOLEAN, d \in DelayRanges :
       /\ topics # EmptyText
       /\ ValidRange(sy, ey) => Len(TopicList(topics)) * (ey - sy + 1) <= MaxPairs
       /\ topic_list' = TopicList(topics)
       /\ start_year' = sy
       /\ end_year' = ey
       /\ include_citations' = ic
       /\ min_delay' = d[1]
       /\ max_delay' = d[2]
       /\ IF ValidRange(sy, ey)
          THEN /\ years' = YearsOf(sy, ey)
               /\ IF TopicList(topics) = <<>> \/ YearsOf(sy, ey) = <<>>
                  THEN pc' = "done" /\ ti' = ti /\ yi' = yi
                  ELSE pc' = "delay" /\ ti' = 1 /\ yi' = 1
          ELSE /\ pc' = "rejected"
               /\ UNCHANGED <<years, ti, yi>>
  /\ UNCHANGED <<results, errors, delay, delays_taken, calls, callVars>>

CourtesyDelay ==
  /\ pc = "delay"
  /\ \E k \in RandomDraws : delay' = Uniform(min_delay, max_delay, k)
  /\ delays_taken' = delays_taken + 1
  /\ pc' = "call"
  /\ UNCHANGED <<formVars, ti, yi, results, errors, calls, callVars>>

CallExecutor ==
  /\ pc = "call"
  /\ calls' = calls + 1
  /\ delay' = NoValue
  /\ max_retries' = DefaultMaxRetries
  /\ retry_count' = 0
  /\ pc' = "loop"
  /\ UNCHANGED <<formVars, ti, yi, results, errors, delays_taken, total, ret, wait_time,
                 backoff_cause, backoff_sleeps, count_requests, rate_limited,
                 citation_requests, citation_outcome>>

AppendRecord ==
  /\ pc = "returned"
  /\ calls > 0
  /\ errors' = ErrorsAfter(errors, topic_list[ti], years[yi], ret[3])
  /\ results' = Append(results,
                  ResultRecord(topic_list[ti], years[yi], ret[1], ret[2], include_citations))
  /\ IF yi < Len(years)
     THEN yi' = yi + 1 /\ ti' = ti /\ pc' = "delay"
     ELSE IF ti < Len(topic_list)
          THEN yi' = 1 /\ ti' = ti + 1 /\ pc' = "delay"
          ELSE yi' = yi /\ ti' = ti /\ pc' = "done"
  /\ max_retries' = NoValue
  /\ retry_count' = NoValue
  /\ total' = NoValue
  /\ ret' = NoRet
  /\ wait_time' = NoValue
  /\ backoff_cause' = None
  /\ backoff_sleeps' = 0
  /\ count_requests' = 0
  /\ rate_limited' = 0
  /\ citation_requests' = 0
  /\ citation_outcome' = None
  /\ UNCHANGED <<formVars, delay, delays_taken, calls>>

Next ==
  \/ Submit
  \/ CourtesyDelay
  \/ CallExecutor
  \/ LoopTest
  \/ CountRateLimited
  \/ CountException
  \/ BackoffSleep
  \/ CountSuccess
  \/ CitationSuccess
  \/ CitationFailure
  \/ AppendRecord

Spec == Init /\ [][Next]_vars

\* One call of search_semantic_scholar(query, year, include_citations, max_retries)
InitCall ==
  /\ pc = "loop"
  /\ topic_list = <<>>
  /\ start_year = NoValue
  /\ end_year = NoValue
  /\ years = <<>>
  /\ include_citations \in BOOLEAN
  /\ min_delay = NoValue
  /\ max_delay = NoValue
  /\ ti = 0
  /\ yi = 0
  /\ results = <<>>
  /\ errors = <<>>
  /\ delay = NoValue
  /\ delays_taken = 0
  /\ calls = 0
  /\ max_retries \in MaxRetriesInputs
  /\ retry_count = 0
  /\ total = NoValue
  /\ ret = NoRet
  /\ wait_time = NoValue
  /\ backoff_cause = None
  /\ backoff_sleeps = 0
  /\ count_requests = 0
  /\ rate_limited = 0
  /\ citation_requests = 0
  /\ citation_outcome = None

NextCall ==
  \/ LoopTest
  \/ CountRateLimited
  \/ CountException
  \/ BackoffSleep
  \/ CountSuccess
  \/ CitationSuccess
  \/ CitationFailure

SpecCall == InitCall /\ [][NextCall]_vars

\* ------------------------------------------------------------- properties
ExecutorPcs == {"loop", "request", "backoff", "citation", "returned"}

NumYears == end_year - start_year + 1

NumPairs == Len(topic_list) * NumYears

ExpectedPair(i) == <<topic_list[((i - 1) \div NumYears) + 1], start_year + ((i - 1) % NumYears)>>

PairOf(r) == <<r.Topic, r.Year>>

CurrentPair == <<topic_list[ti], years[yi]>>

HasCitations(r) == "AverageCitations" \in DOMAIN r

\* C1: a completed sweep with start_year <= end_year holds exactly
\* len(topics) * (end_year - start_year + 1) Result Records, one per
\* (topic, year) pair, in topic input order and ascending year order within a
\* topic, whatever the outcome of each Query Executor call.
C1_OneRecordPerPair ==
  pc = "done" =>
    /\ Len(results) = NumPairs
    /\ \A i \in 1..Len(results) : PairOf(results[i]) = ExpectedPair(i)

C1_Witness ==
  /\ pc = "done"
  /\ Len(results) = 4
  /\ Len(topic_list) = 2
  /\ Len(errors) = 2
  /\ results[1].Publications = 0
  /\ results[2].Publications > 0

\* C2: when the count request is answered by a rate-limit response
\* max_retries + 1 times in a row, the call returns publications = 0 with a
\* non-empty error message after at most max_retries backoff sleeps.
C2_RateLimitExhaustion ==
  (pc = "returned" /\ rate_limited = max_retries + 1) =>
    /\ ret[1] = 0
    /\ ret[3] # None
    /\ ret[3] # ""
    /\ backoff_sleeps <= max_retries

C2_Witness ==
  /\ pc = "returned"
  /\ max_retries = DefaultMaxRetries
  /\ rate_limited = max_retries + 1
  /\ backoff_sleeps = max_retries

\* C3: a count request that fails with a request exception is retried, and
\* the per-item "API Error" is returned only once the retries are exhausted.
C3_ErrorOnlyAfterRetries ==
  (pc = "returned" /\ ret[3] = "API Error") => retry_count > max_retries

\* C4 (as stated): the backoff sleep for retry attempt n lies in
\* [3^n, 3^n + 1) after a rate-limit response and in [2^n, 2^n + 1) after a
\* retried request exception, 1 <= n <= max_retries.
C4_HalfOpenBackoff ==
  pc = "backoff" =>
    /\ 1 <= retry_count /\ retry_count <= max_retries
    /\ backoff_cause = "rate_limit" =>
         /\ Pow(3, retry_count) * Unit <= wait_time
         /\ wait_time < (Pow(3, retry_count) + 1) * Unit
    /\ backoff_cause = "exception" =>
         /\ Pow(2, retry_count) * Unit <= wait_time
         /\ wait_time < (Pow(2, retry_count) + 1) * Unit

\* C4 (amended): the backoff sleep for retry attempt n lies in the closed
\* interval [3^n, 3^n + 1] after a rate-limit response and in [2^n, 2^n + 1]
\* after a retried request exception, 1 <= n <= max_retries; the floating
\* point sum can round up to the upper end.
C4_ClosedBackoff ==
  pc = "backoff" =>
    /\ 1 <= retry_count /\ retry_count <= max_retries
    /\ backoff_cause \in {"rate_limit", "exception"}
    /\ backoff_cause = "rate_limit" =>
         /\ Pow(3, retry_count) * Unit <= wait_time
         /\ wait_time <= (Pow(3, retry_count) + 1) * Unit
    /\ backoff_cause = "exception" =>
         /\ Pow(2, retry_count) * Unit <= wait_time
         /\ wait_time <= (Pow(2, retry_count) + 1) * Unit

C4_Witness ==
  /\ pc = "backoff"
  /\ backoff_cause = "rate_limit"
  /\ retry_count = 2
  /\ backoff_sleeps = 1
  /\ wait_time = (Pow(3, 2) + 1) * Unit

\* C5: with citation inclusion enabled, a positive count and a failed
\* citation-sampling request, the pair's Result Record keeps the positive
\* count with average citations 0, the error list gains exactly one entry for
\* the pair, and the count request is not issued again.
C5_CitationFailureKeepsCount ==
  [][(pc = "returned" /\ calls > 0 /\ citation_outcome = "failed" /\ pc' # "returned") =>
       /\ include_citations
       /\ total > 0
       /\ citation_requests = 1
       /\ count_requests = retry_count + 1
       /\ results' = Append(results, [Topic |-> CurrentPair[1], Year |-> CurrentPair[2],
                                      Publications |-> total, AverageCitations |-> ZeroCit])
       /\ Len(errors') = Len(errors) + 1
       /\ SubSeq(errors', 1, Len(errors)) = errors
       /\ errors'[Len(errors')][1] = CurrentPair[1]
       /\ errors'[Len(errors')][2] = CurrentPair[2]]_vars

C5_Witness ==
  /\ pc \in {"delay", "done"}
  /\ include_citations
  /\ Len(results) = 2
  /\ Len(errors) = 1
  /\ errors[1][1] = results[2].Topic
  /\ errors[1][2] = results[2].Year
  /\ results[2].Publications > 0
  /\ results[2].AverageCitations = ZeroCit
  /\ results[1].AverageCitations # ZeroCit

\* C6 (as stated): a Result Record carries the average-citations field only
\* when citation inclusion was requested and its publications count is > 0.
C6_FieldOnlyWhenPositive ==
  \A i \in 1..Len(results) :
    HasCitations(results[i]) => (include_citations /\ results[i].Publications > 0)

\* C6 (amended): a Result Record carries the average-citations field exactly
\* when citation inclusion was requested, whatever its publications count; in
\* a record with publications = 0 the field is present with value 0.
C6_FieldIffRequested ==
  \A i \in 1..Len(results) :
    /\ HasCitations(results[i]) <=> include_citations
    /\ (include_citations /\ results[i].Publications = 0) =>
         results[i].AverageCitations = ZeroCit

C6_Witness ==
  /\ include_citations
  /\ Len(results) = 2
  /\ results[1].Publications = 0
  /\ HasCitations(results[1])
  /\ results[2].Publications > 0
  /\ results[2].AverageCitations # ZeroCit

\* C7: appending a pair's record adds exactly one error-list entry for that
\* pair when its Query Executor call returned an error message (with a zero or
\* a positive count) and none otherwise; no other step touches the error list;
\* and the sweep goes on to the next pair whenever one is left.
C7_OneErrorPerFailedPair ==
  [][/\ (pc = "returned" /\ calls > 0 /\ pc' # "returned") =>
          /\ IF ret[3] # None
             THEN /\ Len(errors') = Len(errors) + 1
                  /\ SubSeq(errors', 1, Len(errors)) = errors
                  /\ errors'[Len(errors')] = <<CurrentPair[1], CurrentPair[2], ret[3]>>
             ELSE errors' = errors
          /\ Len(results') = Len(results) + 1
          /\ IF Len(results') < NumPairs THEN pc' = "delay" ELSE pc' = "done"
     /\ ~(pc = "returned" /\ calls > 0) => errors' = errors]_vars

C7_Witness ==
  /\ pc = "done"
  /\ Len(results) = 4
  /\ Len(errors) = 2
  /\ errors[1][1] = results[1].Topic /\ errors[1][2] = results[1].Year
  /\ errors[1][3] = "Rate limit exceeded"
  /\ results[1].Publications = 0
  /\ errors[2][1] = results[3].Topic /\ errors[2][2] = results[3].Year
  /\ results[3].Publications > 0
  /\ results[4].Publications > 0

\* C8: a search submitted with start_year > end_year is rejected before any
\* work: no courtesy sleep, no HTTP request, no Result Record, no error entry.
C8_InvalidRangeRejected ==
  (pc # "idle" /\ start_year > end_year) =>
    /\ pc = "rejected"
    /\ delays_taken = 0
    /\ calls = 0
    /\ count_requests = 0
    /\ citation_requests = 0
    /\ results = <<>>
    /\ errors = <<>>

C8_Witness ==
  /\ pc = "rejected"
  /\ start_year > end_year
  /\ Len(topic_list) = 2

\* C9: every Query Executor call of a sweep, the first included, is preceded
\* by exactly one courtesy sleep of a duration in [min_delay, max_delay], taken
\* after the previous pair's record was appended.
C9_CourtesySleepBeforeCall ==
  /\ pc = "call" =>
       /\ min_delay * Unit <= delay
       /\ delay <= max_delay * Unit
       /\ delays_taken = calls + 1
       /\ calls = Len(results)
  /\ (pc \in ExecutorPcs /\ calls > 0) =>
       /\ delays_taken = calls
       /\ calls = Len(results) + 1
  /\ pc \in {"delay", "done"} =>
       /\ delays_taken = calls
       /\ calls = Len(results)

C9_Witness ==
  /\ pc = "call"
  /\ Len(results) = 0
  /\ min_delay < max_delay
  /\ delay > min_delay * Unit
  /\ delay < max_delay * Unit

\* C10: one call issues at most max_retries + 1 count requests, the retry
\* counter never exceeds max_retries when the loop condition is evaluated, and
\* the fall-through result "Max retries exceeded" is never returned.
C10_ReturnsInsideLoop ==
  /\ count_requests <= max_retries + 1
  /\ pc = "loop" => retry_count <= max_retries
  /\ pc = "returned" => ret[3] # "Max retries exceeded"

C10_Witness ==
  /\ pc = "returned"
  /\ max_retries = DefaultMaxRetries
  /\ count_requests = max_retries + 1
  /\ backoff_sleeps = max_retries
  /\ ret[1] > 0

====
